---- MODULE Spec2Model ----
(***************************************************************************)
(* Model of readme-rustdocifier (src/src/inner.rs).                        *)
(*                                                                         *)
(* A string is a sequence of one-character strings (bytes; the model is    *)
(* restricted to ASCII so that byte positions and char positions agree).   *)
(* Positions are 0-based as in the source: At(s, i) is s.as_bytes()[i] and *)
(* Slice(s, a, b) is &s[a..b].  An Option is a sequence of length 0 (None) *)
(* or 1 (Some).  An index or slice out of range is a panic of the call.    *)
(*                                                                         *)
(* TLC may evaluate a LET definition or an operator argument again at each *)
(* use.  Where a value is used many times it is therefore bound by a       *)
(* quantifier over a one-element set: Only({F(x) : x \in {e}}) is F(e).     *)
(***************************************************************************)
EXTENDS Integers, Sequences, FiniteSets, TLC

\* ------------------------------------------------------------------
\* Strings and options

\* the element of a one-element set
Only(S) == CHOOSE x \in S : TRUE

None == <<>>

Some(x) == <<x>>

IsSome(o) == Len(o) = 1

Unwrap(o) == o[1]

At(s, i) == s[i + 1]

Slice(s, a, b) == SubSeq(s, a + 1, b)

SliceFrom(s, a) == SubSeq(s, a + 1, Len(s))

StartsWith(s, p) == Len(s) >= Len(p) /\ SubSeq(s, 1, Len(p)) = p

EndsWith(s, p) == Len(s) >= Len(p) /\ SubSeq(s, Len(s) - Len(p) + 1, Len(s)) = p

Contains(s, c) == \E i \in 1..Len(s) : s[i] = c

\* char::is_whitespace, restricted to the ASCII characters of the model
IsWhitespace(c) == c \in {" ", "\t", "\n", "\r"}

\* str::find(char): 0-based position of the first c, None when absent
FindChar(s, c) ==
  IF Contains(s, c)
  THEN Some((CHOOSE i \in 1..Len(s) : s[i] = c /\ \A j \in 1..(i - 1) : s[j] # c) - 1)
  ELSE None

\* str::find(|c| !c.is_whitespace())
FindNonWhitespace(s) ==
  IF \E i \in 1..Len(s) : ~IsWhitespace(s[i])
  THEN Some((CHOOSE i \in 1..Len(s) :
               ~IsWhitespace(s[i]) /\ \A j \in 1..(i - 1) : IsWhitespace(s[j])) - 1)
  ELSE None

\* str::find(|c| c.is_whitespace())
FindWhitespace(s) ==
  IF \E i \in 1..Len(s) : IsWhitespace(s[i])
  THEN Some((CHOOSE i \in 1..Len(s) :
               IsWhitespace(s[i]) /\ \A j \in 1..(i - 1) : ~IsWhitespace(s[j])) - 1)
  ELSE None

RECURSIVE SplitInclusive(_)
\* str::split_inclusive('\n'): every piece keeps its '\n'; no empty piece
SplitInclusive(s) ==
  IF Len(s) = 0 THEN <<>>
  ELSE IF ~Contains(s, "\n") THEN <<s>>
  ELSE Only({ <<Slice(s, 0, p + 1)>> \o Only({SplitInclusive(t) : t \in {SliceFrom(s, p + 1)}})
              : p \in {Unwrap(FindChar(s, "\n"))} })

RECURSIVE SplitChar(_, _)
\* str::split(char): n separators give n + 1 pieces, empty ones included
SplitChar(s, c) ==
  IF ~Contains(s, c) THEN <<s>>
  ELSE Only({ <<Slice(s, 0, p)>> \o Only({SplitChar(t, c) : t \in {SliceFrom(s, p + 1)}})
              : p \in {Unwrap(FindChar(s, c))} })

RECURSIVE JoinWith(_, _)
\* [&str]::join(sep)
JoinWith(parts, sep) ==
  IF Len(parts) = 0 THEN <<>>
  ELSE IF Len(parts) = 1 THEN parts[1]
  ELSE parts[1] \o sep \o JoinWith(Tail(parts), sep)

RECURSIVE LeadingRun(_, _, _)
\* the loop while n < line.len() && bytes[n] == c { n += 1 } started at n
LeadingRun(line, c, n) ==
  IF n < Len(line) /\ At(line, n) = c THEN LeadingRun(line, c, n + 1) ELSE n

\* ------------------------------------------------------------------
\* Literals

\* the byte 0x60 (grave accent), which a TLA+ string literal cannot hold
BACKTICK == "GRAVE"

HTTPS_DOCS_RS == <<"h","t","t","p","s",":","/","/","d","o","c","s",".","r","s","/">>

INDEX_HTML == <<"i","n","d","e","x",".","h","t","m","l">>

DOT_HTML == <<".","h","t","m","l">>

CRATE == <<"c","r","a","t","e">>

COLONS == <<":", ":">>

METHOD == <<"m","e","t","h","o","d",".">>

VARIANT == <<"v","a","r","i","a","n","t",".">>

TYMETHOD == <<"t","y","m","e","t","h","o","d",".">>

\* variant: "method." is a member prefix of a trait too
DATA_trait_method ==
  << [prefix |-> <<"e","n","u","m",".">>, special |-> <<METHOD, VARIANT>>],
     [prefix |-> <<"f","n",".">>, special |-> <<>>],
     [prefix |-> <<"s","t","r","u","c","t",".">>, special |-> <<METHOD>>],
     [prefix |-> <<"t","r","a","i","t",".">>, special |-> <<TYMETHOD, METHOD>>] >>

DATA ==
  << [prefix |-> <<"e","n","u","m",".">>, special |-> <<METHOD, VARIANT>>],
     [prefix |-> <<"f","n",".">>, special |-> <<>>],
     [prefix |-> <<"s","t","r","u","c","t",".">>, special |-> <<METHOD>>],
     [prefix |-> <<"t","r","a","i","t",".">>, special |-> <<TYMETHOD>>] >>

\* ------------------------------------------------------------------
\* Results of the private functions: tag is "Some", "None", an Error
\* variant, or "panic"; val is the converted text or the error payload.

Res(tag, val) == [tag |-> tag, val |-> val]

\* ------------------------------------------------------------------
\* Private functions of inner.rs

\* variant: three backticks close a fence of any width
is_code_block_end_min3(line, backtick_count) ==
  IF Len(line) < 3 THEN FALSE
  ELSE \A n \in 0..2 : At(line, n) = BACKTICK

is_code_block_end(line, backtick_count) ==
  IF Len(line) < backtick_count THEN FALSE
  ELSE \A n \in 0..(backtick_count - 1) : At(line, n) = BACKTICK

\* variant: a fence needs 4 backticks
is_code_block_start_min4(line) ==
  LET backtick_count == LeadingRun(line, BACKTICK, 0)
  IN  IF backtick_count >= 4 THEN Some(backtick_count) ELSE None

is_code_block_start(line) ==
  LET backtick_count == LeadingRun(line, BACKTICK, 0)
  IN  IF backtick_count >= 3 THEN Some(backtick_count) ELSE None

\* variant: the fragment is dropped
root_link_no_fragment(fragment) == CRATE

root_link(fragment) ==
  IF IsSome(fragment) THEN CRATE \o <<"#">> \o Unwrap(fragment) ELSE CRATE

\* variant: a top-level header is removed whatever the flag is
convert_header_line_unchecked(line, is_first_header) ==
  LET level == LeadingRun(line, "#", 0)
      R(tag, val, flag) == [tag |-> tag, val |-> val, flag |-> flag]
  IN  IF level > 0 /\ level >= Len(line)
      THEN R("panic", <<>>, is_first_header)
      ELSE IF level > 0 /\ At(line, level) = " "
      THEN IF level = 1
           THEN R("Some", <<>>, FALSE)
           ELSE R("Some", SliceFrom(line, 1), FALSE)
      ELSE R("None", <<>>, is_first_header)

\* variant: a deeper header leaves the flag alone
convert_header_line_keep_flag(line, is_first_header) ==
  LET level == LeadingRun(line, "#", 0)
      R(tag, val, flag) == [tag |-> tag, val |-> val, flag |-> flag]
  IN  IF level > 0 /\ level >= Len(line)
      THEN R("panic", <<>>, is_first_header)
      ELSE IF level > 0 /\ At(line, level) = " "
      THEN IF level = 1
           THEN IF is_first_header
                THEN R("Some", <<>>, FALSE)
                ELSE R("NonFirstTopLevelHeader", line, is_first_header)
           ELSE R("Some", SliceFrom(line, 1), is_first_header)
      ELSE R("None", <<>>, is_first_header)

\* variant: a deeper header becomes a top-level one
convert_header_line_to_top(line, is_first_header) ==
  LET level == LeadingRun(line, "#", 0)
      R(tag, val, flag) == [tag |-> tag, val |-> val, flag |-> flag]
  IN  IF level > 0 /\ level >= Len(line)
      THEN R("panic", <<>>, is_first_header)
      ELSE IF level > 0 /\ At(line, level) = " "
      THEN IF level = 1
           THEN IF is_first_header
                THEN R("Some", <<>>, FALSE)
                ELSE R("NonFirstTopLevelHeader", line, is_first_header)
           ELSE R("Some", SliceFrom(line, level - 1), FALSE)
      ELSE R("None", <<>>, is_first_header)

\* Returns [tag, val, flag]: flag is *is_first_header after the call.
\* bytes[level] is evaluated only when level > 0; it is out of bounds when
\* the '#' run reaches the end of the line.
convert_header_line(line, is_first_header) ==
  LET level == LeadingRun(line, "#", 0)
      R(tag, val, flag) == [tag |-> tag, val |-> val, flag |-> flag]
  IN  IF level > 0 /\ level >= Len(line)
      THEN R("panic", <<>>, is_first_header)
      ELSE IF level > 0 /\ At(line, level) = " "
      THEN IF level = 1
           THEN IF is_first_header
                THEN R("Some", <<>>, FALSE)
                ELSE R("NonFirstTopLevelHeader", line, is_first_header)
           ELSE R("Some", SliceFrom(line, 1), FALSE)
      ELSE R("None", <<>>, is_first_header)

\* The loop over DATA for a filename that ends with ".html", from table
\* entry i on.  &filename[prefix.len()..filename.len() - 5] panics when the
\* range starts after its end.
RECURSIVE ItemLink(_, _, _, _, _)
ItemLink(url, modules, filename, fragment, i) ==
  IF i > Len(DATA) THEN Res("UnrecognizedUrl", url)
  ELSE LET prefix == DATA[i].prefix
           special == DATA[i].special
       IN  IF StartsWith(filename, prefix)
           THEN IF Len(prefix) > Len(filename) - 5
                THEN Res("panic", <<>>)
                ELSE LET name == Slice(filename, Len(prefix), Len(filename) - 5)
                         hits == {k \in 1..Len(special) :
                                    StartsWith(Unwrap(fragment), special[k])}
                     IN  IF IsSome(fragment)
                         THEN IF hits # {}
                              THEN LET k == CHOOSE k \in hits : \A j \in hits : k <= j
                                   IN  Res("Some", CRATE \o modules \o COLONS \o name \o COLONS
                                                   \o SliceFrom(Unwrap(fragment), Len(special[k])))
                              ELSE Res("Some", CRATE \o modules \o COLONS \o name
                                               \o <<"#">> \o Unwrap(fragment))
                         ELSE Res("Some", CRATE \o modules \o COLONS \o name)
           ELSE ItemLink(url, modules, filename, fragment, i + 1)

\* variant: any character may follow the package name
url_prefix_len_any_next(url, package_name) ==
  LET url_prefix == HTTPS_DOCS_RS \o package_name
  IN  IF ~StartsWith(url, url_prefix) THEN None
      ELSE IF Len(url) = Len(url_prefix) THEN Some(Len(url_prefix))
      ELSE IF At(url, Len(url_prefix)) = "/" THEN Some(Len(url_prefix) + 1)
      ELSE Some(Len(url_prefix))

\* The start of the path in url: Some(url_prefix_len), or None where the
\* source returns Ok(url.to_owned()) because url is out of scope.
url_prefix_len(url, package_name) ==
  LET url_prefix == HTTPS_DOCS_RS \o package_name
  IN  IF ~StartsWith(url, url_prefix) THEN None
      ELSE IF Len(url) = Len(url_prefix) THEN Some(Len(url_prefix))
      ELSE IF At(url, Len(url_prefix)) = "/" THEN Some(Len(url_prefix) + 1)
      ELSE IF At(url, Len(url_prefix)) = "#" THEN Some(Len(url_prefix))
      ELSE None

\* variant: the crate name is checked before the version
convert_path_crate_first(url, path, fragment, version, crate_name) ==
  IF Len(path) = 0
  THEN IF IsSome(version) THEN Res("MissingVersionInUrl", url)
       ELSE Res("Some", root_link(fragment))
  ELSE IF Len(path) >= 2 /\ path[2] # INDEX_HTML
          /\ IsSome(crate_name) /\ path[2] # Unwrap(crate_name)
  THEN Res("WrongCrateNameInUrl", url)
  ELSE IF IsSome(version) /\ path[1] # Unwrap(version) THEN Res("WrongVersionInUrl", url)
  ELSE IF Len(path) = 2 /\ path[2] = INDEX_HTML THEN Res("Some", root_link(fragment))
  ELSE IF Len(path) = 1 THEN Res("Some", root_link(fragment))
  ELSE IF Len(path) = 3 /\ path[3] = INDEX_HTML THEN Res("Some", root_link(fragment))
  ELSE IF Len(path) = 2 THEN Res("Some", root_link(fragment))
  ELSE
  LET last == path[Len(path)]
      module_segs == IF Contains(last, ".") THEN SubSeq(path, 3, Len(path) - 1)
                     ELSE SubSeq(path, 3, Len(path))
      filename == IF Contains(last, ".") THEN last ELSE INDEX_HTML
      modules == IF Len(module_segs) = 0 THEN <<>>
                 ELSE COLONS \o JoinWith(module_segs, COLONS)
  IN
  IF filename = INDEX_HTML
  THEN IF IsSome(fragment)
       THEN Res("Some", CRATE \o modules \o <<"#">> \o Unwrap(fragment))
       ELSE Res("Some", CRATE \o modules)
  ELSE IF ~EndsWith(filename, DOT_HTML) THEN Res("UnrecognizedUrl", url)
  ELSE ItemLink(url, modules, filename, fragment, 1)

\* convert_url from the VERSION check on, with path and fragment as computed
\* before it.
convert_path(url, path, fragment, version, crate_name) ==
  IF Len(path) = 0
  THEN IF IsSome(version) THEN Res("MissingVersionInUrl", url)
       ELSE Res("Some", root_link(fragment))
  ELSE IF IsSome(version) /\ path[1] # Unwrap(version) THEN Res("WrongVersionInUrl", url)
  ELSE IF Len(path) = 2 /\ path[2] = INDEX_HTML THEN Res("Some", root_link(fragment))
  ELSE IF Len(path) = 1 THEN Res("Some", root_link(fragment))
  ELSE IF IsSome(crate_name) /\ path[2] # Unwrap(crate_name)
  THEN Res("WrongCrateNameInUrl", url)
  ELSE IF Len(path) = 3 /\ path[3] = INDEX_HTML THEN Res("Some", root_link(fragment))
  ELSE IF Len(path) = 2 THEN Res("Some", root_link(fragment))
  ELSE
  LET last == path[Len(path)]
      module_segs == IF Contains(last, ".") THEN SubSeq(path, 3, Len(path) - 1)
                     ELSE SubSeq(path, 3, Len(path))
      filename == IF Contains(last, ".") THEN last ELSE INDEX_HTML
      modules == IF Len(module_segs) = 0 THEN <<>>
                 ELSE COLONS \o JoinWith(module_segs, COLONS)
  IN
  IF filename = INDEX_HTML
  THEN IF IsSome(fragment)
       THEN Res("Some", CRATE \o modules \o <<"#">> \o Unwrap(fragment))
       ELSE Res("Some", CRATE \o modules)
  ELSE IF ~EndsWith(filename, DOT_HTML) THEN Res("UnrecognizedUrl", url)
  ELSE ItemLink(url, modules, filename, fragment, 1)

\* Returns Res("Some", link) for Ok(link), Res(<Error variant>, url) for Err.
convert_url(url, package_name, version, crate_name) ==
  Only({
    IF ~IsSome(start) THEN Res("Some", url)
    ELSE
    Only({
      Only({
        LET path == IF split[Len(split)] = <<>> THEN SubSeq(split, 1, Len(split) - 1)
                    ELSE split
        IN  convert_path(url, path, fragment, version, crate_name)
        : split \in { IF IsSome(fragment_start_pos)
                      THEN SplitChar(Slice(url, Unwrap(start), Unwrap(fragment_start_pos)), "/")
                      ELSE SplitChar(SliceFrom(url, Unwrap(start)), "/") },
          fragment \in { IF IsSome(fragment_start_pos)
                         THEN Some(SliceFrom(url, Unwrap(fragment_start_pos) + 1))
                         ELSE None } })
      : fragment_start_pos \in {FindChar(url, "#")} })
    : start \in {url_prefix_len(url, package_name)} })

\* variant: what follows the URL is dropped
convert_link_line_no_tail(line, package_name, version, crate_name) ==
  IF At(line, 0) # "[" THEN Res("None", <<>>)
  ELSE IF ~Contains(line, "]") THEN Res("None", <<>>)
  ELSE
  Only({
    IF close_bracket_pos + 1 >= Len(line) THEN Res("panic", <<>>)
    ELSE IF At(line, close_bracket_pos + 1) # ":" THEN Res("None", <<>>)
    ELSE
    Only({
      IF ~IsSome(found) THEN Res("None", <<>>)
      ELSE IF close_bracket_pos + 2 + Unwrap(found) = close_bracket_pos + 2
      THEN Res("None", <<>>)
      ELSE
      Only({
        Only({
          Only({
            IF conv.tag = "Some"
            THEN Res("Some", Slice(line, 0, url_start_pos) \o conv.val)
            ELSE conv
            : conv \in {convert_url(url, package_name, version, crate_name)} })
          : url \in {Slice(line, url_start_pos, url_end_pos)} })
        : url_start_pos \in {close_bracket_pos + 2 + Unwrap(found)},
          url_end_pos \in
            { LET ws == FindWhitespace(SliceFrom(line, close_bracket_pos + 2 + Unwrap(found)))
              IN  IF IsSome(ws) THEN close_bracket_pos + 2 + Unwrap(found) + Unwrap(ws)
                  ELSE Len(line) } })
      : found \in {FindNonWhitespace(SliceFrom(line, close_bracket_pos + 2))} })
    : close_bracket_pos \in {Unwrap(FindChar(line, "]"))} })

\* Returns Res("Some", line'), Res("None", <<>>), Res(<Error variant>, url)
\* or Res("panic", <<>>) when bytes[close_bracket_pos + 1] is out of bounds.
convert_link_line(line, package_name, version, crate_name) ==
  IF At(line, 0) # "[" THEN Res("None", <<>>)
  ELSE IF ~Contains(line, "]") THEN Res("None", <<>>)
  ELSE
  Only({
    IF close_bracket_pos + 1 >= Len(line) THEN Res("panic", <<>>)
    ELSE IF At(line, close_bracket_pos + 1) # ":" THEN Res("None", <<>>)
    ELSE
    Only({
      IF ~IsSome(found) THEN Res("None", <<>>)
      ELSE IF close_bracket_pos + 2 + Unwrap(found) = close_bracket_pos + 2
      THEN Res("None", <<>>)
      ELSE
      Only({
        Only({
          Only({
            IF conv.tag = "Some"
            THEN Res("Some", Slice(line, 0, url_start_pos) \o conv.val
                             \o SliceFrom(line, url_end_pos))
            ELSE conv
            : conv \in {convert_url(url, package_name, version, crate_name)} })
          : url \in {Slice(line, url_start_pos, url_end_pos)} })
        : url_start_pos \in {close_bracket_pos + 2 + Unwrap(found)},
          url_end_pos \in
            { LET ws == FindWhitespace(SliceFrom(line, close_bracket_pos + 2 + Unwrap(found)))
              IN  IF IsSome(ws) THEN close_bracket_pos + 2 + Unwrap(found) + Unwrap(ws)
                  ELSE Len(line) } })
      : found \in {FindNonWhitespace(SliceFrom(line, close_bracket_pos + 2))} })
    : close_bracket_pos \in {Unwrap(FindChar(line, "]"))} })

\* ------------------------------------------------------------------
\* Inputs

MaxLines == 3

FOO == <<"f","o","o">>

VERSION_1 == <<"1">>

LF == <<"\n">>

CRLF == <<"\r", "\n">>

FENCE3 == <<BACKTICK, BACKTICK, BACKTICK>>

LINK_LABEL == <<"[", "x", "]", ":", " ">>

\* [x]: https://docs.rs/foo
ROOT_LINK_LINE == LINK_LABEL \o HTTPS_DOCS_RS \o FOO

\* Line contents of the readmes of Spec: a fence, headers of level 1 to 3,
\* '#' runs that are no header, ordinary text and a link definition.
LineContents ==
  { FENCE3,
    <<"#", " ", "A">>, <<"#", "#", " ", "B">>, <<"#", "#", "#", " ", "C">>,
    <<"#", "A">>, <<"#", "#">>,
    <<"a">>,
    ROOT_LINK_LINE }

\* every content ends with "\n"; those with a visible effect also with "\r\n"
TerminatedLines ==
  {c \o LF : c \in LineContents}
  \cup {c \o CRLF : c \in {<<"#", " ", "A">>, <<"#", "#", " ", "B">>, <<"a">>, ROOT_LINK_LINE}}

RECURSIVE ReadmesOf(_, _, _)
\* the texts of at most n lines: terminated lines from body, then nothing
\* or one line of last (the only line that may lack its terminator)
ReadmesOf(body, last, n) ==
  IF n = 0 THEN {<<>>}
  ELSE {<<>>} \cup last \cup {l \o r : l \in body, r \in ReadmesOf(body, last, n - 1)}

Readmes == ReadmesOf(TerminatedLines, LineContents, MaxLines)

\* ------------------------------------------------------------------
\* Readmes with one link definition, for the URL converter

MaxModules == 1

VERSION_2 == <<"2">>

BAR == <<"b","a","r">>

SLASH == <<"/">>

FOO_URL == HTTPS_DOCS_RS \o FOO

Versions == {VERSION_1, VERSION_2}

\* second path segments
Crates == {FOO, BAR, INDEX_HTML}

ModuleNames == {<<"a">>, <<"b">>}

RECURSIVE ModulePaths(_)
\* "/m1/.../mk" for k <= n
ModulePaths(n) ==
  IF n = 0 THEN {<<>>}
  ELSE {<<>>} \cup {SLASH \o m \o r : m \in ModuleNames, r \in ModulePaths(n - 1)}

\* last path segments: none, index.html, the four kinds of item, an unknown
\* kind, no ".html", and a kind prefix that overlaps ".html"
Filenames ==
  { <<>>, SLASH \o INDEX_HTML,
    SLASH \o <<"e","n","u","m",".","E",".","h","t","m","l">>,
    SLASH \o <<"f","n",".","f",".","h","t","m","l">>,
    SLASH \o <<"s","t","r","u","c","t",".","S",".","h","t","m","l">>,
    SLASH \o <<"t","r","a","i","t",".","T",".","h","t","m","l">>,
    SLASH \o <<"h","i",".","h","t","m","l">>,
    SLASH \o <<"x",".","p","n","g">>,
    SLASH \o <<"e","n","u","m",".","h","t","m","l">>,
    SLASH \o <<"f","n",".","h","t","m","l">>,
    SLASH \o <<"f","n",".">> }

Fragments ==
  { <<>>, <<"#">>, <<"#","f">>, <<"#">> \o METHOD \o <<"g">>,
    <<"#">> \o VARIANT \o <<"V">>, <<"#">> \o TYMETHOD \o <<"t">> }

\* the paths after https://docs.rs/foo: nothing, a version, a version and a
\* second segment, and longer ones
Paths ==
  {<<>>}
  \cup {SLASH \o v : v \in Versions}
  \cup {SLASH \o v \o SLASH \o c : v \in Versions, c \in Crates}
  \cup {SLASH \o v \o SLASH \o c \o m \o f :
          v \in Versions, c \in {FOO, BAR}, m \in ModulePaths(MaxModules), f \in Filenames}

\* URLs of the package
PackageUrls ==
  {FOO_URL \o p \o t \o f : p \in Paths, t \in {<<>>, SLASH}, f \in Fragments}

\* URLs of another site or package: another host, another package, a
\* package whose name extends or shortens foo
OtherUrls ==
  {b \o t :
     b \in { <<"h","t","t","p",":","/","/","d","o","c","s",".","r","s","/">> \o FOO,
             HTTPS_DOCS_RS \o BAR, FOO_URL \o BAR, FOO_URL \o <<".">>,
             HTTPS_DOCS_RS \o <<"f","o">> },
     t \in {<<>>, <<"/","2","/","b","a","r","/","x",".","p","n","g">>, <<"#","f">>}}

Urls == PackageUrls \cup OtherUrls

\* [x]: <url>   and   [x]:<tab><space><url><space>y<CR><LF>
LinkLines ==
  {LINK_LABEL \o u : u \in Urls}
  \cup {<<"[", "x", "]", ":", "\t", " ">> \o u \o <<" ", "y">> \o CRLF : u \in Urls}

\* what comes before the link definition: nothing, an open fence, or a
\* top-level header and a line of text
Preambles == {<<>>, FENCE3 \o LF, <<"#", " ", "A">> \o LF \o <<"a">> \o LF}

\* a URL of the package with another version and another crate
BAD_URL == FOO_URL \o SLASH \o VERSION_2 \o SLASH \o BAR

\* lines that start like a link definition and are none: no "]", no ":"
\* after it, no whitespace after the ":", no URL; with and without "\n"
MalformedLines ==
  {c \o t :
     c \in { <<"[", "x", ":", " ">> \o BAD_URL,
             <<"[", "x", "]", " ">> \o BAD_URL,
             <<"[", "x", "]">> \o BAD_URL,
             <<"[", "x", "]">>,
             <<"[", "x", "]", ":">> \o BAD_URL,
             <<"[", "x", "]", ":">>,
             <<"[", "x", "]", ":", " ", "\t">>,
             <<"[", "]", ":", " ">> \o BAD_URL,
             <<"[">> },
     t \in {<<>>, LF}}

UrlReadmes == {p \o l : p \in Preambles, l \in LinkLines \cup MalformedLines}

\* ------------------------------------------------------------------
\* Readmes with fences of different widths

MaxFenceLines == 4

FENCE4 == <<BACKTICK, BACKTICK, BACKTICK, BACKTICK>>

\* Line contents: fences of width 3 and 4, a fence with a language tag, runs
\* of one and two backticks, a header and a link definition
FenceContents ==
  { FENCE3, FENCE4, FENCE3 \o <<"a">>,
    <<BACKTICK>>, <<BACKTICK, BACKTICK>>,
    <<"#", "#", " ", "B">>,
    ROOT_LINK_LINE }

\* the lines above and the empty line, which is shorter than every fence
FenceReadmes ==
  ReadmesOf({c \o LF : c \in FenceContents \cup {<<>>}}, FenceContents, MaxFenceLines)

\* ------------------------------------------------------------------
\* rustdocify, one action per path through the body of its loop

\* rest is the state of the iterator readme.split_inclusive('\n'): the part
\* of readme it has not yielded yet
VARIABLES readme, package_name, version, crate_name,
          rest, is_first_header, code_block_level, result, ret

vars == <<readme, package_name, version, crate_name,
          rest, is_first_header, code_block_level, result, ret>>

args == <<readme, package_name, version, crate_name>>

\* the line the iterator yields next: rest up to and including its first '\n'
line ==
  LET p == FindChar(rest, "\n")
  IN  IF IsSome(p) THEN Slice(rest, 0, Unwrap(p) + 1) ELSE rest

Running == ret.tag = "running"

InLoop == Running /\ Len(rest) > 0

InitWith(readmes, versions, crate_names) ==
  /\ readme \in readmes
  /\ package_name = FOO
  /\ version \in versions
  /\ crate_name \in crate_names
  /\ rest = readme
  /\ is_first_header = TRUE
  /\ code_block_level = None
  /\ result = <<>>
  /\ ret = Res("running", <<>>)

Init == InitWith(Readmes, {None, Some(VERSION_1)}, {None})

\* IN CODE BLOCK
InCodeBlock ==
  /\ InLoop
  /\ IsSome(code_block_level)
  /\ \E l \in {line} :
       /\ code_block_level' = IF is_code_block_end(l, Unwrap(code_block_level))
                              THEN None ELSE code_block_level
       /\ result' = result \o l
       /\ rest' = SliceFrom(rest, Len(l))
  /\ UNCHANGED <<args, is_first_header, ret>>

\* NOT IN CODE BLOCK, the line opens one
CodeBlockStart ==
  /\ InLoop
  /\ ~IsSome(code_block_level)
  /\ \E l \in {line} :
       /\ IsSome(is_code_block_start(l))
       /\ code_block_level' = is_code_block_start(l)
       /\ result' = result \o l
       /\ rest' = SliceFrom(rest, Len(l))
  /\ UNCHANGED <<args, is_first_header, ret>>

\* NOT IN CODE BLOCK, convert_header_line returns Ok(Some(..)), Err or panics
HeaderLine ==
  /\ InLoop
  /\ ~IsSome(code_block_level)
  /\ \E l \in {line} :
       /\ ~IsSome(is_code_block_start(l))
       /\ \E h \in {convert_header_line(l, is_first_header)} :
            /\ h.tag # "None"
            /\ is_first_header' = h.flag
            /\ IF h.tag = "Some"
               THEN /\ result' = result \o h.val
                    /\ rest' = SliceFrom(rest, Len(l))
                    /\ UNCHANGED ret
               ELSE /\ ret' = Res(h.tag, h.val)
                    /\ UNCHANGED <<result, rest>>
  /\ UNCHANGED <<args, code_block_level>>

\* variant: an error of convert_link_line is swallowed and the line copied
LinkLine_copy_on_error ==
  /\ InLoop
  /\ ~IsSome(code_block_level)
  /\ \E l \in {line} :
       /\ ~IsSome(is_code_block_start(l))
       /\ convert_header_line(l, is_first_header).tag = "None"
       /\ \E c \in {convert_link_line(l, package_name, version, crate_name)} :
            /\ c.tag # "None"
            /\ result' = result \o (IF c.tag = "Some" THEN c.val ELSE l)
            /\ rest' = SliceFrom(rest, Len(l))
  /\ UNCHANGED <<args, is_first_header, code_block_level, ret>>

\* NOT IN CODE BLOCK, no header, convert_link_line returns Ok(Some(..)), Err
\* or panics
LinkLine ==
  /\ InLoop
  /\ ~IsSome(code_block_level)
  /\ \E l \in {line} :
       /\ ~IsSome(is_code_block_start(l))
       /\ convert_header_line(l, is_first_header).tag = "None"
       /\ \E c \in {convert_link_line(l, package_name, version, crate_name)} :
            /\ c.tag # "None"
            /\ IF c.tag = "Some"
               THEN /\ result' = result \o c.val
                    /\ rest' = SliceFrom(rest, Len(l))
                    /\ UNCHANGED ret
               ELSE /\ ret' = c
                    /\ UNCHANGED <<result, rest>>
  /\ UNCHANGED <<args, is_first_header, code_block_level>>

\* NOT IN CODE BLOCK, neither converter applies
OtherLine ==
  /\ InLoop
  /\ ~IsSome(code_block_level)
  /\ \E l \in {line} :
       /\ ~IsSome(is_code_block_start(l))
       /\ convert_header_line(l, is_first_header).tag = "None"
       /\ convert_link_line(l, package_name, version, crate_name).tag = "None"
       /\ result' = result \o l
       /\ rest' = SliceFrom(rest, Len(l))
  /\ UNCHANGED <<args, is_first_header, code_block_level, ret>>

\* Ok(result)
ReturnOk ==
  /\ Running
  /\ Len(rest) = 0
  /\ ret' = Res("Ok", result)
  /\ UNCHANGED <<args, rest, is_first_header, code_block_level, result>>

Next ==
  \/ InCodeBlock
  \/ CodeBlockStart
  \/ HeaderLine
  \/ LinkLine
  \/ OtherLine
  \/ ReturnOk

Spec == Init /\ [][Next]_vars

\* rustdocify on the readmes with one link definition, with and without a
\* required version and crate name
InitUrl == InitWith(UrlReadmes, {None, Some(VERSION_1)}, {None, Some(FOO)})

SpecUrl == InitUrl /\ [][Next]_vars

\* rustdocify on the readmes with fences, nothing required of the URLs
InitFence == InitWith(FenceReadmes, {None}, {None})

SpecFence == InitFence /\ [][Next]_vars

\* ------------------------------------------------------------------
\* Vocabulary of the properties, defined on the text alone

\* the part of readme the loop has gone through
Consumed == SubSeq(readme, 1, Len(readme) - Len(rest))

\* length of the run of c at the start of l
RunOf(l, c) ==
  CHOOSE n \in 0..Len(l) :
    /\ \A i \in 1..n : l[i] = c
    /\ n = Len(l) \/ l[n + 1] # c

\* a header line: one or more '#' and then a space; its level is the
\* number of '#'
IsHeader(l) ==
  LET n == RunOf(l, "#") IN n >= 1 /\ Len(l) > n /\ l[n + 1] = " "

Level(l) == RunOf(l, "#")

\* a run of '#' that no space follows
IsHashRunWithoutSpace(l) ==
  /\ RunOf(l, "#") >= 1
  /\ RunOf(l, "#") = Len(l) \/ l[RunOf(l, "#") + 1] # " "

\* the terminator of a line
Terminator(l) ==
  IF EndsWith(l, CRLF) THEN CRLF ELSE IF EndsWith(l, LF) THEN LF ELSE <<>>

\* the first line of a text that is not empty
FirstLine(text) ==
  LET p == FindChar(text, "\n")
  IN  IF IsSome(p) THEN SubSeq(text, 1, Unwrap(p) + 1) ELSE text

RECURSIVE Scan(_, _, _, _)
\* One pass over the lines of text, from line number i on, with w the width
\* of the open fence (0 when none is open) and first the number of the first
\* header line met outside a fence (0 when none was met).  A line read
\* outside a fence opens one when it starts with 3 or more backticks; a line
\* read in a fence of width w closes it when it starts with w backticks.
Scan(text, i, w, first) ==
  IF Len(text) = 0 THEN [fence |-> w, first |-> first]
  ELSE Only({
    Only({ Scan(t, i2, w2, first2)
           : t \in {SubSeq(text, Len(l) + 1, Len(text))},
             i2 \in {i + 1},
             w2 \in { IF w = 0 THEN (IF RunOf(l, BACKTICK) >= 3 THEN RunOf(l, BACKTICK) ELSE 0)
                      ELSE IF RunOf(l, BACKTICK) >= w THEN 0 ELSE w },
             first2 \in { IF first = 0 /\ w = 0 /\ RunOf(l, BACKTICK) < 3 /\ IsHeader(l)
                          THEN i ELSE first } })
    : l \in {FirstLine(text)} })

\* width of the fence open at the end of text, 0 when none is
FenceAfter(text) == Scan(text, 1, 0, 0).fence

\* number of the first header line of text outside a fence, 0 when none
FirstHeader(text) == Scan(text, 1, 0, 0).first

\* the line l that the loop visits next is outside every fence and opens none
LineOutside(l) == FenceAfter(Consumed) = 0 /\ RunOf(l, BACKTICK) < 3

\* the loop goes on to the line after l
GoesOn(l) == rest' = SliceFrom(rest, Len(l)) /\ ret' = ret

\* the loop copies the line l that it visits and goes on
CopiesLine(l) == result' = result \o l /\ GoesOn(l)

\* ------------------------------------------------------------------
\* C1  Code-fence opacity: a line from a fence-opening line to the closing
\* line of that fence (or to the end of the text) is appended to the output
\* unchanged, raises no error and leaves the first-header flag alone.
C1_FenceOpacity ==
  [][ InLoop => \A l \in {line} :
        ~LineOutside(l) => (CopiesLine(l) /\ is_first_header' = is_first_header) ]_vars

\* a second "# " header has been copied inside a fence that is never closed
C1_Witness ==
  /\ readme = <<"#", " ", "A">> \o LF \o FENCE3 \o LF \o <<"#", " ", "A">> \o CRLF
  /\ ret = Res("Ok", FENCE3 \o LF \o <<"#", " ", "A">> \o CRLF)
  /\ ~is_first_header

\* ------------------------------------------------------------------
\* C2  as stated: a text with exactly one "# " line is converted with that
\* line gone from the output, and a text with a second "# " line anywhere
\* yields NonFirstTopLevelHeader (texts ending in another error or in a
\* panic set aside).
C2_Original ==
  ret.tag \in {"Ok", "NonFirstTopLevelHeader"} =>
    \A ls \in {SplitInclusive(readme)}, out \in {SplitInclusive(ret.val)} :
      \A tops \in {{i \in 1..Len(ls) : IsHeader(ls[i]) /\ Level(ls[i]) = 1}} :
        /\ Cardinality(tops) = 1 =>
             /\ ret.tag = "Ok"
             /\ \A i \in tops : \A j \in 1..Len(out) : out[j] # ls[i]
        /\ Cardinality(tops) >= 2 => ret.tag = "NonFirstTopLevelHeader"

\* C2  amended: a "# " line outside every fence contributes nothing to the
\* output (not even its terminator) when no header line outside a fence
\* precedes it, and makes rustdocify return NonFirstTopLevelHeader when one
\* does; the output is untouched by the failing line.
C2_SingleTopLevelHeader ==
  [][ InLoop => \A l \in {line} :
        (LineOutside(l) /\ IsHeader(l) /\ Level(l) = 1)
          => IF FirstHeader(Consumed) = 0
             THEN result' = result /\ GoesOn(l)
             ELSE ret'.tag = "NonFirstTopLevelHeader" /\ result' = result ]_vars

\* the only top-level header, first header of the text, is gone from the
\* converted text
C2_Witness ==
  /\ readme = <<"#", " ", "A">> \o CRLF \o <<"a">> \o LF \o <<"#", "#", " ", "B">>
  /\ ret = Res("Ok", <<"a">> \o LF \o <<"#", " ", "B">>)

\* ------------------------------------------------------------------
\* C3  The first-header flag is true exactly until the first header line
\* (of any level) outside a fence has been visited, and a "# " line outside
\* a fence that such a header precedes makes rustdocify return
\* NonFirstTopLevelHeader with the whole line, terminator included.
C3_FirstHeaderFlag ==
  [][ /\ is_first_header = (FirstHeader(Consumed) = 0)
      /\ is_first_header' = (FirstHeader(Consumed') = 0)
      /\ InLoop => \A l \in {line} :
           (LineOutside(l) /\ IsHeader(l) /\ Level(l) = 1 /\ FirstHeader(Consumed) # 0)
             => ret' = Res("NonFirstTopLevelHeader", l) ]_vars

\* "## B" then "# A": the error carries the line with its "\r\n"
C3_Witness ==
  /\ readme = <<"#", "#", " ", "B">> \o LF \o <<"#", " ", "A">> \o CRLF
  /\ ret = Res("NonFirstTopLevelHeader", <<"#", " ", "A">> \o CRLF)

\* ------------------------------------------------------------------
\* the terminators of the lines of text that have one, in order
Terminators(text) ==
  Only({ LET n == IF Len(ls) > 0 /\ Terminator(ls[Len(ls)]) = <<>>
                  THEN Len(ls) - 1 ELSE Len(ls)
         IN  [k \in 1..n |-> Terminator(ls[k])]
         : ls \in {SplitInclusive(text)} })

\* C4  as stated: on success the output has the lines of the input, line k
\* ending with the terminator of input line k; the removed header leaves
\* its terminator behind.  (Stated on the terminators, so that a removed
\* header that is the last line and has no terminator counts as kept.)
C4_Original ==
  ret.tag = "Ok" => Terminators(ret.val) = Terminators(readme)

\* the lines of text without the top-level header that is removed: the first
\* header outside a fence, when its level is 1
KeptLines(text) ==
  Only({ IF first # 0 /\ Level(ls[first]) = 1
         THEN SubSeq(ls, 1, first - 1) \o SubSeq(ls, first + 1, Len(ls))
         ELSE ls
         : ls \in {SplitInclusive(text)}, first \in {FirstHeader(text)} })

\* C4  amended: on success the output has one line for every input line but
\* the removed top-level header, which is dropped together with its
\* terminator; these lines keep their order and each ends with exactly the
\* terminator of its input line.
C4_LineStructure ==
  ret.tag = "Ok" =>
    \A kept \in {KeptLines(readme)}, out \in {SplitInclusive(ret.val)} :
      /\ Len(out) = Len(kept)
      /\ \A k \in 1..Len(kept) : Terminator(out[k]) = Terminator(kept[k])

\* mixed terminators around a removed header, a demoted header and a
\* rewritten link
C4_Witness ==
  /\ readme = <<"#", " ", "A">> \o CRLF \o <<"#", "#", " ", "B">> \o CRLF
                \o ROOT_LINK_LINE \o LF
  /\ ret = Res("Ok", <<"#", " ", "B">> \o CRLF \o LINK_LABEL \o CRATE \o LF)

\* ------------------------------------------------------------------
\* C5  Header demotion: a line outside a fence with N >= 2 '#' and then a
\* space is appended to the output without its first '#', the rest and the
\* terminator unchanged, and raises no error whatever the flag is.
C5_HeaderDemotion ==
  [][ InLoop => \A l \in {line} :
        (LineOutside(l) /\ IsHeader(l) /\ Level(l) >= 2)
          => (result' = result \o Tail(l) /\ GoesOn(l)) ]_vars

\* a level 3 header demoted after the flag was cleared, a level 2 header
\* demoted while it was set
C5_Witness ==
  /\ readme = <<"#", "#", " ", "B">> \o CRLF \o <<"#", "#", "#", " ", "C">> \o LF
  /\ ret = Res("Ok", <<"#", " ", "B">> \o CRLF \o <<"#", "#", " ", "C">> \o LF)

\* ------------------------------------------------------------------
\* C6  A line outside a fence that starts with a run of '#' which no space
\* follows (another character, the terminator or the end of the text
\* follows it) is copied unchanged, the call goes on and the first-header
\* flag keeps its value.
C6_HashRunWithoutSpace ==
  [][ InLoop => \A l \in {line} :
        (LineOutside(l) /\ IsHashRunWithoutSpace(l))
          => (CopiesLine(l) /\ is_first_header' = is_first_header) ]_vars

\* ------------------------------------------------------------------
\* Vocabulary of the properties about links, defined on the text alone

\* position of the first c in l (l contains c)
First(l, c) == CHOOSE i \in 1..Len(l) : l[i] = c /\ \A j \in 1..(i - 1) : l[j] # c

\* a link definition: "[", a label that ends at the first "]", ":", one or
\* more whitespace characters, and a URL
IsLinkDef(l) ==
  /\ l[1] = "["
  /\ Contains(l, "]")
  /\ \A c \in {First(l, "]")} :
       /\ c + 2 <= Len(l)
       /\ l[c + 1] = ":"
       /\ IsWhitespace(l[c + 2])
       /\ \E a \in (c + 3)..Len(l) : ~IsWhitespace(l[a])

\* the parts of a link definition: the URL (the characters from the first
\* one after the whitespace that follows the colon up to the next whitespace
\* or the end), what is before it and what is after it
LinkParts(l) ==
  Only({ Only({ Only({ [pre |-> SubSeq(l, 1, a - 1), url |-> SubSeq(l, a, b),
                        post |-> SubSeq(l, b + 1, Len(l))]
                       : b \in {CHOOSE b \in a..Len(l) :
                                  /\ \A j \in a..b : ~IsWhitespace(l[j])
                                  /\ b = Len(l) \/ IsWhitespace(l[b + 1])} })
                : a \in {CHOOSE a \in (c + 3)..Len(l) :
                           /\ ~IsWhitespace(l[a])
                           /\ \A j \in (c + 2)..(a - 1) : IsWhitespace(l[j])} })
         : c \in {First(l, "]")} })

\* https://docs.rs/<package_name>
PackageUrl == <<"h","t","t","p","s",":","/","/","d","o","c","s",".","r","s","/">> \o package_name

\* u is a URL of the package: the prefix, then nothing, "/" or "#"
Matches(u) ==
  /\ StartsWith(u, PackageUrl)
  /\ Len(u) = Len(PackageUrl) \/ u[Len(PackageUrl) + 1] \in {"/", "#"}

\* the fragment of u: what follows its first "#", if there is one
FragmentOf(u) == IF Contains(u, "#") THEN Some(SubSeq(u, First(u, "#") + 1, Len(u))) ELSE None

\* the path segments of a URL of the package: the pieces between the "/" of
\* what lies between the package name and the fragment, one trailing "/"
\* not counting
PathOf(u) ==
  Only({ Only({ LET p == Tail(segs)
                IN  IF Len(p) > 0 /\ p[Len(p)] = <<>> THEN SubSeq(p, 1, Len(p) - 1) ELSE p
                : segs \in {SplitChar(SubSeq(u, Len(PackageUrl) + 1, e), "/")} })
         : e \in {IF Contains(u, "#") THEN First(u, "#") - 1 ELSE Len(u)} })

\* p has a crate-name segment: a second segment that is not a final index.html
HasCrateSegment(p) == Len(p) >= 2 /\ ~(Len(p) = 2 /\ p[2] = INDEX_HTML)

VersionOk(p) == IsSome(version) => (Len(p) >= 1 /\ p[1] = Unwrap(version))

CrateOk(p) == (IsSome(crate_name) /\ HasCrateSegment(p)) => p[2] = Unwrap(crate_name)

\* the loop replaces the URL of the link definition l by link and goes on
RewritesUrl(l, k, link) == result' = result \o k.pre \o link \o k.post /\ GoesOn(l)

\* the call ends with the error kind, which carries exactly the URL
FailsWith(kind, k) == ret' = Res(kind, k.url) /\ result' = result

\* ------------------------------------------------------------------
\* C7  Out-of-scope URLs: a link definition outside a fence whose URL does
\* not start with https://docs.rs/<package_name>, or continues after it with
\* a character other than "/" and "#", is copied unchanged without error,
\* whatever version and crate name are required.
C7_OutOfScopeUrl ==
  [][ InLoop => \A l \in {line} :
        (LineOutside(l) /\ IsLinkDef(l))
          => \A k \in {LinkParts(l)} : ~Matches(k.url) => CopiesLine(l) ]_vars

\* a link to package foobar, with a path that breaks both requirements, is
\* left as it is
C7_Witness ==
  /\ version = Some(VERSION_1) /\ crate_name = Some(FOO)
  /\ readme = LINK_LABEL \o FOO_URL \o BAR \o <<"/","2","/","b","a","r","/","x",".","p","n","g">>
  /\ ret = Res("Ok", readme)

\* ------------------------------------------------------------------
\* C8  as stated: with a version required, a URL of the package without a
\* version segment fails with MissingVersionInUrl and one with another
\* version with WrongVersionInUrl; with a crate name required, a URL of the
\* package whose crate-name segment is present and differs fails with
\* WrongCrateNameInUrl, and one without crate-name segment does not; the
\* error carries exactly the URL.
C8_Original ==
  [][ InLoop => \A l \in {line} :
        (LineOutside(l) /\ IsLinkDef(l))
          => \A k \in {LinkParts(l)} : Matches(k.url)
               => \A p \in {PathOf(k.url)} :
                    /\ (IsSome(version) /\ Len(p) = 0) => FailsWith("MissingVersionInUrl", k)
                    /\ (IsSome(version) /\ Len(p) >= 1 /\ p[1] # Unwrap(version))
                         => FailsWith("WrongVersionInUrl", k)
                    /\ (IsSome(crate_name) /\ HasCrateSegment(p) /\ p[2] # Unwrap(crate_name))
                         => FailsWith("WrongCrateNameInUrl", k)
                    /\ (IsSome(crate_name) /\ ~HasCrateSegment(p))
                         => ret'.tag # "WrongCrateNameInUrl" ]_vars

\* C8  amended: the version is checked first.  With a version required, a
\* URL of the package without a version segment fails with
\* MissingVersionInUrl and one with another version with WrongVersionInUrl;
\* with a crate name required, a URL of the package that passes the version
\* check and whose crate-name segment is present and differs fails with
\* WrongCrateNameInUrl, and one without crate-name segment never does; the
\* error carries exactly the URL.
C8_CallerConstraints ==
  [][ InLoop => \A l \in {line} :
        (LineOutside(l) /\ IsLinkDef(l))
          => \A k \in {LinkParts(l)} : Matches(k.url)
               => \A p \in {PathOf(k.url)} :
                    /\ (IsSome(version) /\ Len(p) = 0) => FailsWith("MissingVersionInUrl", k)
                    /\ (IsSome(version) /\ Len(p) >= 1 /\ p[1] # Unwrap(version))
                         => FailsWith("WrongVersionInUrl", k)
                    /\ (VersionOk(p) /\ IsSome(crate_name) /\ HasCrateSegment(p)
                          /\ p[2] # Unwrap(crate_name))
                         => FailsWith("WrongCrateNameInUrl", k)
                    /\ (IsSome(crate_name) /\ ~HasCrateSegment(p))
                         => ret'.tag # "WrongCrateNameInUrl" ]_vars

\* the right version and another crate: the error carries the URL without
\* the tab, the space and the text around it
C8_Witness ==
  /\ version = Some(VERSION_1) /\ crate_name = Some(FOO)
  /\ readme = <<"[", "x", "]", ":", "\t", " ">> \o FOO_URL \o <<"/","1","/","b","a","r">>
                \o <<" ", "y">> \o CRLF
  /\ ret = Res("WrongCrateNameInUrl", FOO_URL \o <<"/","1","/","b","a","r">>)

\* ------------------------------------------------------------------
\* a filename of the form <kind>.<Name>.html
IsItemFilename(f) ==
  \E kind \in { <<"e","n","u","m">>, <<"f","n">>, <<"s","t","r","u","c","t">>,
                <<"t","r","a","i","t">> } :
    /\ StartsWith(f, kind \o <<".">>)
    /\ EndsWith(f, <<".","h","t","m","l">>)
    /\ Len(f) >= Len(kind) + 1 + 5

\* C9  Unrecognized filenames: a URL of the package that passes the version
\* and crate-name checks and whose last segment after version and crate
\* contains a ".", is not index.html and is not <kind>.<Name>.html makes
\* rustdocify return UnrecognizedUrl with that URL; enum.html and fn.html,
\* where the kind prefix and ".html" overlap, are such filenames.
C9_UnrecognizedFilename ==
  [][ InLoop => \A l \in {line} :
        (LineOutside(l) /\ IsLinkDef(l))
          => \A k \in {LinkParts(l)} : Matches(k.url)
               => \A p \in {PathOf(k.url)} :
                    (/\ VersionOk(p) /\ CrateOk(p)
                     /\ Len(p) >= 3
                     /\ Contains(p[Len(p)], ".")
                     /\ p[Len(p)] # INDEX_HTML
                     /\ ~IsItemFilename(p[Len(p)]))
                      => FailsWith("UnrecognizedUrl", k) ]_vars

\* ------------------------------------------------------------------
\* the forms of a link to the package root: no path, a version, a version
\* and index.html, a version and a crate, these two and index.html
IsRootPath(p) ==
  \/ Len(p) <= 2
  \/ Len(p) = 3 /\ p[3] = INDEX_HTML

\* C10  Package-root forms: a URL of the package that satisfies the
\* requirements on version and crate name and has one of the root forms is
\* replaced by "crate" when it has no fragment and by "crate#<fragment>"
\* when it has one.
C10_PackageRoot ==
  [][ InLoop => \A l \in {line} :
        (LineOutside(l) /\ IsLinkDef(l))
          => \A k \in {LinkParts(l)} : Matches(k.url)
               => \A p \in {PathOf(k.url)}, f \in {FragmentOf(k.url)} :
                    (VersionOk(p) /\ CrateOk(p) /\ IsRootPath(p))
                      => RewritesUrl(l, k, IF IsSome(f)
                                           THEN <<"c","r","a","t","e","#">> \o Unwrap(f)
                                           ELSE <<"c","r","a","t","e">>) ]_vars

\* version, crate, index.html, a trailing "/" and a fragment, with both
\* requirements in force
C10_Witness ==
  /\ version = Some(VERSION_1) /\ crate_name = Some(FOO)
  /\ readme = <<"[", "x", "]", ":", "\t", " ">> \o FOO_URL
                \o <<"/","1","/","f","o","o","/">> \o INDEX_HTML \o <<"/","#","f">>
                \o <<" ", "y">> \o CRLF
  /\ ret = Res("Ok", <<"[", "x", "]", ":", "\t", " ">> \o <<"c","r","a","t","e","#","f">>
                     \o <<" ", "y">> \o CRLF)

\* ------------------------------------------------------------------
\* the kinds of item and, for each, the fragment prefixes that name a member
ItemKinds ==
  { [kind |-> <<"e","n","u","m">>,
     members |-> { <<"m","e","t","h","o","d",".">>, <<"v","a","r","i","a","n","t",".">> }],
    [kind |-> <<"f","n">>, members |-> {}],
    [kind |-> <<"s","t","r","u","c","t">>, members |-> { <<"m","e","t","h","o","d",".">> }],
    [kind |-> <<"t","r","a","i","t">>,
     members |-> { <<"t","y","m","e","t","h","o","d",".">> }] }

\* the kind of the item filename f
KindOf(f) == CHOOSE k \in ItemKinds : StartsWith(f, k.kind \o <<".">>)

\* the <Name> of the item filename f of kind k
NameOf(f, k) == SubSeq(f, Len(k.kind) + 2, Len(f) - 5)

RECURSIVE ColonPath(_)
\* "::m1::...::mk"
ColonPath(segs) ==
  IF Len(segs) = 0 THEN <<>> ELSE <<":", ":">> \o Head(segs) \o ColonPath(Tail(segs))

\* the link for the path p = version, crate, m1..mk, <kind>.<Name>.html and
\* the optional fragment f
ItemLinkFor(p, f) ==
  Only({ IF ~IsSome(f) THEN item
         ELSE IF \E m \in k.members : StartsWith(Unwrap(f), m)
         THEN item \o <<":", ":">>
                   \o SubSeq(Unwrap(f),
                             Len(CHOOSE m \in k.members : StartsWith(Unwrap(f), m)) + 1,
                             Len(Unwrap(f)))
         ELSE item \o <<"#">> \o Unwrap(f)
         : k \in {KindOf(p[Len(p)])},
           item \in { <<"c","r","a","t","e">> \o ColonPath(SubSeq(p, 3, Len(p) - 1))
                      \o <<":", ":">> \o NameOf(p[Len(p)], KindOf(p[Len(p)])) } })

UrlError(u) ==
  IF ~Matches(u) THEN None
  ELSE Only({
    IF IsSome(version) /\ Len(p) = 0 THEN Some(Res("MissingVersionInUrl", u))
    ELSE IF IsSome(version) /\ p[1] # Unwrap(version) THEN Some(Res("WrongVersionInUrl", u))
    ELSE IF ~CrateOk(p) THEN Some(Res("WrongCrateNameInUrl", u))
    ELSE IF /\ Len(p) >= 3
            /\ Contains(p[Len(p)], ".")
            /\ p[Len(p)] # INDEX_HTML
            /\ ~IsItemFilename(p[Len(p)])
    THEN Some(Res("UnrecognizedUrl", u))
    ELSE None
    : p \in {PathOf(u)} })

\* the error that the line l raises when it is read after the text before,
\* with the fence state and the first-header flag that before leaves
LineError(before, l) ==
  Only({ IF sc.fence # 0 \/ RunOf(l, BACKTICK) >= 3 THEN None
         ELSE IF IsHeader(l)
         THEN IF Level(l) = 1 /\ sc.first # 0
              THEN Some(Res("NonFirstTopLevelHeader", l)) ELSE None
         ELSE IF IsLinkDef(l) THEN UrlError(LinkParts(l).url)
         ELSE None
         : sc \in {Scan(before, 1, 0, 0)} })

RECURSIVE TextOf(_)
\* the lines ls put together again
TextOf(ls) == IF Len(ls) = 0 THEN <<>> ELSE Head(ls) \o TextOf(Tail(ls))

\* C12  First error wins and aborts: the lines are gone through in the order
\* of the text; while lines raise no error the loop goes on, the text is
\* returned converted only when no line raises an error, and otherwise the
\* value returned is the error of the earliest line that raises one, judged
\* with the fence state and the first-header flag reached at that line; the
\* loop stops at that line and the value carries none of the converted text.
C12_FirstErrorWins ==
  \A ls \in {SplitInclusive(readme)} :
    \A errs \in {{i \in 1..Len(ls) : IsSome(LineError(TextOf(SubSeq(ls, 1, i - 1)), ls[i]))}} :
      /\ ret.tag = "Ok" => errs = {}
      /\ \A i \in errs :
           (\A j \in errs : i <= j)
             => /\ Len(Consumed) <= Len(TextOf(SubSeq(ls, 1, i - 1)))
                /\ ~Running
                     => /\ ret = Unwrap(LineError(TextOf(SubSeq(ls, 1, i - 1)), ls[i]))
                        /\ Consumed = TextOf(SubSeq(ls, 1, i - 1))

\* a link without version on line 2 and a second top-level header on line
\* 3: the error of line 2 is returned, line 3 is not reached
C12_Witness ==
  /\ version = Some(VERSION_1)
  /\ readme = <<"#", " ", "A">> \o LF \o ROOT_LINK_LINE \o LF \o <<"#", " ", "A">>
  /\ ret = Res("MissingVersionInUrl", FOO_URL)
  /\ rest = ROOT_LINK_LINE \o LF \o <<"#", " ", "A">>

\* ------------------------------------------------------------------
\* the first w characters of l are backticks
StartsWithBackticks(l, w) == Len(l) >= w /\ \A i \in 1..w : l[i] = BACKTICK

\* C13  Fence state machine: the fence state is none before the first line;
\* a line read while it is none sets it to W exactly when the line starts
\* with a run of W >= 3 backticks, whatever follows the run; while it is W
\* it goes back to none exactly at a line whose first W characters are all
\* backticks, and that line opens no new fence.
C13_FenceStateMachine ==
  /\ code_block_level = <<>>
  /\ [][ InLoop => \A l \in {line}, run \in {RunOf(line, BACKTICK)} :
            IF code_block_level = <<>>
            THEN code_block_level' = (IF run >= 3 THEN <<run>> ELSE <<>>)
            ELSE \A w \in {code_block_level[1]} :
                   code_block_level' = (IF StartsWithBackticks(l, w) THEN <<>>
                                        ELSE code_block_level) ]_vars

\* a fence of width 4 that holds a line of three backticks and a header: the
\* fence is closed by the second line of four backticks, the text unchanged
C13_Witness ==
  /\ readme = FENCE4 \o LF \o FENCE3 \o LF \o <<"#", "#", " ", "B">> \o LF \o FENCE4
  /\ ret = Res("Ok", readme)
  /\ code_block_level = <<>>

\* ------------------------------------------------------------------
\* l starts with "[" and is no link definition: it has no "]", or its first
\* "]" is not followed by ":" (nothing follows it, or another character),
\* or a character that is no whitespace follows the ":", or nothing but
\* whitespace follows the ":"
LooksLikeLinkDef(l) ==
  /\ l[1] = "["
  /\ \/ ~Contains(l, "]")
     \/ \A c \in {First(l, "]")} :
          \/ c = Len(l)
          \/ l[c + 1] # ":"
          \/ c + 2 <= Len(l) /\ ~IsWhitespace(l[c + 2])
          \/ \A j \in (c + 2)..Len(l) : IsWhitespace(l[j])

\* C14  A line outside a fence that only looks like a link definition (see
\* LooksLikeLinkDef; a "]" that is the last character of the text included)
\* is copied unchanged and the call goes on, whatever URL the line holds and
\* whatever version and crate name are required.
C14_LooksLikeLinkDef ==
  [][ InLoop => \A l \in {line} :
        (LineOutside(l) /\ LooksLikeLinkDef(l)) => CopiesLine(l) ]_vars

====
